---- MODULE Spec2Model ----
(***************************************************************************)
(* Model of the storage client: the chunked transfer engine (put_cmd,     *)
(* get_cmd, print_io_status), the chunk-store adapter (MongoStorage over  *)
(* GridFS) and the object-store adapter (MinIOStorage with its write      *)
(* stream MinIOStreamInProxy and read stream MinioStreamOutProxy).        *)
(*                                                                         *)
(* Bytes are small naturals, a content is a sequence of bytes, a file      *)
(* name is a sequence of characters.  A digest is the pair of its          *)
(* algorithm and the content it was computed over, so that two digests     *)
(* are equal exactly when algorithm and content are.                       *)
(***************************************************************************)
EXTENDS Integers, Sequences, FiniteSets, TLC

\* ------------------------------------------------------------------ bounds
\* largest source file, in bytes
MaxSize == 3
\* commands run, and files stored by other clients, in one behaviour
MaxCmds == 2
\* calls a direct user of the stream interface makes on one write stream
MaxApiOps == 3
\* chunk sizes, scaled down: GridFS chunk size of a new file (255 kB),
\* minio helpers.MIN_PART_SIZE (5 MB), the read chunk of MinIOStorage.list (1 MB)
GridChunk == 2
MIN_PART_SIZE == 1
MinioReadChunk == 1

\* ------------------------------------------------------------------ values
NameA == <<"a">>
NameAB == <<"a", "b">>
NameADollar == <<"a", "$">>
FileNames == {NameA, NameAB, NameADollar}
\* Python's None where a name or an identifier is expected
NoneId == <<>>

Backends == {"mongodb", "minio"}

Bytes(n, b) == [i \in 1..n |-> b]
\* the content of the local source file of a put
SrcContent(size) == Bytes(size, 1)
\* a chunk as the backend receives it when it was damaged on the way
Corrupt(chunk) == IF chunk = <<>> THEN chunk ELSE [chunk EXCEPT ![1] = 0]

NoHash == [alg |-> "none", data |-> <<>>]
md5(c) == [alg |-> "md5", data |-> c]
sha256(c) == [alg |-> "sha256", data |-> c]

Min(S) == CHOOSE x \in S : \A y \in S : x <= y

\* ------------------------------------------------------------------ state
VARIABLES
  backend,      \* the backend the connection string selects
  store,        \* the file records (mongodb) or objects (minio) of the bucket
  uploads,      \* the multipart sessions open on the object store
  nextId,       \* source of fresh ObjectIds and upload ids
  stream,       \* the write stream of the running put, or of the direct user
  reqs,         \* the requests the write stream has issued so far
  closes,       \* how often close was called on the write stream
  closeOk,      \* the latest close call on the write stream returned normally
  late,         \* calls made on the write stream after its first close
  cmd,          \* the running command: "put", "get", or "api" for a direct user
  pc,           \* position of the main thread
  filename,     \* put: target filename; get: filename filter
  fsize,        \* put: os.path.getsize; get: f_record.stream.size
  fdata,        \* content of the local file f
  fpos,         \* f.tell()
  fclosed,      \* f.closed
  hashed,       \* the bytes folded into the running hash
  hash_type,    \* algorithm of the running hash
  writes,       \* byte counts of the write calls of the running transfer
  chunk_size,
  total_chunked_size,
  read_left_size,
  files,        \* get: the records still to download
  rec,          \* get: the record being downloaded (f_record)
  rstream,      \* get: state of f_record.stream
  th,           \* position of the progress thread
  current_sz,   \* print_io_status: current_sz
  term,         \* kinds of the lines written to the terminal by this command
  result,       \* how the last command ended
  pre,          \* the store when the running command started
  ncmd,         \* commands started so far
  apiOps,       \* calls the direct user has made on its stream
  colls,        \* chunk store: the collections of the database
  buckets,      \* object store: the buckets of the server
  todo,         \* bucket_list: the collections the enumeration has yet to deliver
  done_list,    \* bucket_list: done_list
  yielded,      \* bucket_list: the records yielded so far
  apc,          \* position of the bucket command
  ares,         \* how the bucket command ended
  aname,        \* the bucket name the command was given
  apre,         \* colls and buckets when the command started
  call,         \* the library call being made: function and arguments
  out           \* what that call returned or raised

vars == <<backend, store, uploads, nextId, stream, reqs, closes, closeOk, late, cmd, pc,
          filename,
          fsize, fdata, fpos, fclosed, hashed, hash_type, writes, chunk_size,
          total_chunked_size, read_left_size, files, rec, rstream, th,
          current_sz, term, result, pre, ncmd, apiOps,
          colls, buckets, todo, done_list, yielded, apc, ares, aname, apre, call, out>>

storeVars == <<store, uploads, nextId>>
streamVars == <<stream, reqs, closes, closeOk, late>>
fileVars == <<fdata, fpos, fclosed>>
xferVars == <<cmd, filename, fsize, hashed, hash_type, writes, chunk_size,
              total_chunked_size, read_left_size>>
getVars == <<files, rec, rstream>>
thVars == <<th, current_sz>>
admVars == <<colls, buckets, todo, done_list, yielded, apc, ares, aname, apre>>
libVars == <<call, out>>
\* the state of the file transfer commands
engineVars == <<storeVars, streamVars, pc, fileVars, xferVars, getVars, thVars, term,
                result, pre, ncmd, apiOps>>

NoStream == [kind |-> "none", filename |-> NoneId, fid |-> NoneId, buf |-> <<>>,
             hasBuf |-> FALSE, closed |-> FALSE, uploadid |-> 0,
             part_number |-> 0, parts |-> {}]
NoRec == [fid |-> NoneId, filename |-> NoneId, content |-> <<>>, hash |-> NoHash,
          chunk_size |-> 0, sha |-> FALSE]
NoRStream == [opened |-> FALSE, closed |-> FALSE, pos |-> 0, hash_value |-> NoHash,
              hash_type |-> "none", size |-> 0, chunk_size |-> 0]

\* ------------------------------------------------------------------ name filters
\* re.search of a pattern of literal characters and the anchor "$"
RECURSIVE MatchAt(_, _, _, _)
MatchAt(p, k, t, i) ==
  IF k > Len(p) THEN TRUE
  ELSE IF p[k] = "$" THEN i = Len(t) + 1 /\ MatchAt(p, k + 1, t, i)
  ELSE i <= Len(t) /\ t[i] = p[k] /\ MatchAt(p, k + 1, t, i + 1)

RegexSearch(p, t) == \E i \in 1..(Len(t) + 1) : MatchAt(p, 1, t, i)

IsPrefix(p, t) == Len(p) <= Len(t) /\ SubSeq(t, 1, Len(p)) = p

\* MongoStorage.list: fs.find() without a filter, else {'filename': {'$regex': filename}}
MongoListMatch(filter, name) ==
  IF filter = NoneId THEN TRUE ELSE RegexSearch(filter, name)

\* MinIOStorage.list: list_objects_v2(prefix=filename)
MinioListMatch(filter, name) ==
  IF filter = NoneId THEN TRUE ELSE IsPrefix(filter, name)

\* GenericStorage.list on the connected backend: the records it yields
List(filter) ==
  {r \in store : IF backend = "mongodb" THEN MongoListMatch(filter, r.filename)
                 ELSE MinioListMatch(filter, r.filename)}

\* ------------------------------------------------------------------ object store server
Obj(name, data, h) ==
  [fid |-> name, filename |-> name, content |-> data, hash |-> h,
   chunk_size |-> 0, sha |-> FALSE]

\* a PUT of an object replaces the object of that name
PutObject(st, o) == {r \in st : r.filename # o.filename} \cup {o}

RECURSIVE ConcatParts(_)
ConcatParts(ps) ==
  IF ps = {} THEN <<>>
  ELSE LET n == Min({p.num : p \in ps})
           p == CHOOSE q \in ps : q.num = n
       IN p.data \o ConcatParts(ps \ {p})

RECURSIVE PartsDigest(_)
PartsDigest(ps) ==
  IF ps = {} THEN <<>>
  ELSE LET n == Min({p.num : p \in ps})
           p == CHOOSE q \in ps : q.num = n
       IN p.data \o <<9>> \o PartsDigest(ps \ {p})

\* the part numbers of the parts ps, ascending
RECURSIVE PartNumbers(_)
PartNumbers(ps) ==
  IF ps = {} THEN <<>>
  ELSE LET n == Min({p.num : p \in ps})
       IN <<n>> \o PartNumbers({q \in ps : q.num # n})

\* the ETag of a completed multipart object: a digest of the part digests
MultipartEtag(ps) == [alg |-> "md5parts", data |-> PartsDigest(ps)]


\* ------------------------------------------------------------------ write streams
\* The state a call on a write stream works on and leaves behind: the stream,
\* the server state, the requests issued so far, and the exception the call
\* raised ("none" when it returned).
Eff(s, st, up, rq, exc) ==
  [stream |-> s, store |-> st, uploads |-> up, reqs |-> rq, exc |-> exc]

Req(op, num, data) == [op |-> op, num |-> num, data |-> data]

\* MinIOStreamInProxy._do_put_object: one PUT, of a part when a multipart
\* session is set, else of the whole object; ok = the request succeeded
DoPutObject(e, part_data, ok) ==
  LET s == e.stream
      isPart == s.part_number > 0 /\ s.uploadid # 0
      has == \E u \in e.uploads : u.uid = s.uploadid
      done == ok /\ (isPart => has)
      up == IF done /\ isPart
            THEN LET u == CHOOSE v \in e.uploads : v.uid = s.uploadid
                 IN (e.uploads \ {u}) \cup
                    {[u EXCEPT !.parts = {q \in u.parts : q.num # s.part_number}
                                         \cup {[num |-> s.part_number, data |-> part_data]}]}
            ELSE e.uploads
      st == IF done /\ ~isPart
            THEN PutObject(e.store, Obj(s.filename, part_data, md5(part_data)))
            ELSE e.store
  IN Eff(s, st, up,
         Append(e.reqs, Req(IF isPart THEN "PART" ELSE "PUT",
                            IF isPart THEN s.part_number ELSE 0, part_data)),
         IF done THEN "none" ELSE "Error")

\* a threshold test that sends a size equal to the threshold to multipart
UseMultipartGe(size) == size >= MIN_PART_SIZE

\* the threshold test of MinIOStreamInProxy.__init__
UseMultipart(size) == size > MIN_PART_SIZE

\* MinIOStreamInProxy.__init__; uid is the id of the session the server opens
MinioNewFile(e, name, size, uid, ok) ==
  IF UseMultipart(size)
  THEN IF ok
       THEN Eff([kind |-> "minio", filename |-> name, fid |-> NoneId, buf |-> <<>>,
                 hasBuf |-> FALSE, closed |-> FALSE, uploadid |-> uid,
                 part_number |-> 1, parts |-> {}],
                e.store,
                e.uploads \cup {[uid |-> uid, filename |-> name, parts |-> {}]},
                <<Req("INIT", uid, <<>>)>>, "none")
       ELSE Eff(NoStream, e.store, e.uploads, <<Req("INIT", uid, <<>>)>>, "IOError")
  ELSE Eff([kind |-> "minio", filename |-> name, fid |-> NoneId, buf |-> <<>>,
            hasBuf |-> TRUE, closed |-> FALSE, uploadid |-> 0,
            part_number |-> 0, parts |-> {}],
           e.store, e.uploads, <<>>, "none")

\* a write that moves on to the next part number when its PUT failed
MinioWriteBurnsNumber(e, b, ok) ==
  LET s == e.stream
  IN IF s.hasBuf
     THEN [e EXCEPT !.stream = [s EXCEPT !.buf = s.buf \o b], !.exc = "none"]
     ELSE LET d == DoPutObject(e, b, ok)
          IN IF d.exc # "none"
             THEN [d EXCEPT !.exc = "IOError",
                            !.stream = [s EXCEPT !.part_number = s.part_number + 1]]
             ELSE [d EXCEPT !.stream =
                     [s EXCEPT !.parts = {q \in s.parts : q.num # s.part_number}
                                         \cup {[num |-> s.part_number, data |-> b]},
                               !.part_number = s.part_number + 1]]

\* MinIOStreamInProxy.write
MinioWrite(e, b, ok) ==
  LET s == e.stream
  IN IF s.hasBuf
     THEN [e EXCEPT !.stream = [s EXCEPT !.buf = s.buf \o b], !.exc = "none"]
     ELSE LET d == DoPutObject(e, b, ok)
          IN IF d.exc # "none"
             THEN [d EXCEPT !.exc = "IOError"]
             ELSE [d EXCEPT !.stream =
                     [s EXCEPT !.parts = {q \in s.parts : q.num # s.part_number}
                                         \cup {[num |-> s.part_number, data |-> b]},
                               !.part_number = s.part_number + 1]]

\* an except branch that re-raises without removing the incomplete upload
AbortUploadSkipped(up, uid) == up

\* the except branch of MinIOStreamInProxy.close: _remove_incomplete_upload
AbortUpload(up, uid) == {u \in up : u.uid # uid}

\* MinIOStreamInProxy.close
MinioClose(e, ok) ==
  LET s == e.stream
  IN IF s.hasBuf
     THEN DoPutObject(e, s.buf, ok)
     ELSE LET \* the call names the parts of self._uploaded_parts
              rq == Append(e.reqs, Req("COMPLETE", 0, PartNumbers(s.parts)))
              done == ok /\ (\E u \in e.uploads : u.uid = s.uploadid) /\ s.parts # {}
          IN IF done
             THEN LET u == CHOOSE v \in e.uploads : v.uid = s.uploadid
                      ps == {q \in u.parts : q.num \in {r.num : r \in s.parts}}
                  IN Eff([s EXCEPT !.uploadid = 0, !.part_number = 1, !.parts = {},
                                   !.fid = s.filename],
                         PutObject(e.store, Obj(s.filename, ConcatParts(ps), MultipartEtag(ps))),
                         e.uploads \ {u}, rq, "none")
             ELSE Eff(s, e.store, AbortUpload(e.uploads, s.uploadid),
                      Append(rq, Req("ABORT", 0, <<>>)), "Error")

\* MongoStorage.new_file: a GridIn with a fresh _id; size is not used
MongoNewFile(e, name, size, oid) ==
  Eff([kind |-> "gridin", filename |-> name, fid |-> oid, buf |-> <<>>,
       hasBuf |-> FALSE, closed |-> FALSE, uploadid |-> 0,
       part_number |-> 0, parts |-> {}],
      e.store, e.uploads, <<>>, "none")

\* FileIn.write = GridIn.write: refused on a closed file; ok = the driver
\* could store the data
GridWrite(e, b, ok) ==
  IF e.stream.closed THEN [e EXCEPT !.exc = "ValueError"]
  ELSE IF ~ok THEN [e EXCEPT !.exc = "Error"]
  ELSE [e EXCEPT !.stream = [e.stream EXCEPT !.buf = e.stream.buf \o b], !.exc = "none"]

\* FileIn.close = GridIn.close: writes the file document once
GridClose(e) ==
  LET s == e.stream
  IN IF s.closed THEN [e EXCEPT !.exc = "none"]
     ELSE Eff([s EXCEPT !.closed = TRUE],
              e.store \cup {[fid |-> s.fid, filename |-> s.filename, content |-> s.buf,
                             hash |-> md5(s.buf), chunk_size |-> GridChunk, sha |-> FALSE]},
              e.uploads, e.reqs, "none")

\* GenericStorage.new_file(bucket, filename, size) on the connected backend
NewFile(e, name, size, id, ok) ==
  IF backend = "mongodb" THEN MongoNewFile(e, name, size, id)
  ELSE MinioNewFile(e, name, size, id, ok)

StreamWrite(e, b, ok) ==
  IF e.stream.kind = "gridin" THEN GridWrite(e, b, ok) ELSE MinioWrite(e, b, ok)

StreamClose(e, ok) ==
  IF e.stream.kind = "gridin" THEN GridClose(e) ELSE MinioClose(e, ok)

\* FileIn._id: GridIn._id, or MinIOStreamInProxy.__id
StreamId(s) == s.fid

\* FileIn.hash_value: GridIn.md5, or the constant None of MinIOStreamInProxy
StreamHashValue(s) == IF s.kind = "gridin" THEN md5(s.buf) ELSE NoHash

\* the chunk size a new write stream declares
StreamChunkSize(s) == IF s.kind = "gridin" THEN GridChunk ELSE MIN_PART_SIZE

\* GenericStorage.delete(bucket, fid): [store, exc]
Delete(st, fid) ==
  IF backend = "minio" /\ fid = NoneId
  THEN [store |-> st, exc |-> "Error"]
  ELSE [store |-> {r \in st : r.fid # fid}, exc |-> "none"]

\* the state the running command's stream calls start from
Cur == Eff(stream, store, uploads, reqs, "none")

\* ------------------------------------------------------------------ initial state
Running == [status |-> "running", exc |-> "none", msg |-> "none"]
Returned(msg) == [status |-> "returned", exc |-> "none", msg |-> msg]
Raised(exc) == [status |-> "raised", exc |-> exc, msg |-> "none"]

\* no command is running: a process holds nothing of the one before it
Locals ==
  /\ stream = NoStream /\ reqs = <<>> /\ closes = 0 /\ closeOk = FALSE
  /\ late = 0 /\ cmd = "none"
  /\ pc = "idle"
  /\ filename = NoneId /\ fsize = 0
  /\ fdata = <<>> /\ fpos = 0 /\ fclosed = TRUE
  /\ hashed = <<>> /\ hash_type = "md5" /\ writes = <<>>
  /\ chunk_size = 0 /\ total_chunked_size = 0 /\ read_left_size = 0
  /\ files = {} /\ rec = NoRec /\ rstream = NoRStream
  /\ th = "none" /\ current_sz = 0
  /\ term = <<>>
  /\ result = Running
  /\ pre = {}
  /\ apiOps = 0

\* the locals of a command end with it
ResetLocals ==
  /\ stream' = NoStream /\ reqs' = <<>> /\ closes' = 0 /\ closeOk' = FALSE
  /\ late' = 0 /\ cmd' = "none"
  /\ pc' = "idle"
  /\ filename' = NoneId /\ fsize' = 0
  /\ fdata' = <<>> /\ fpos' = 0 /\ fclosed' = TRUE
  /\ hashed' = <<>> /\ hash_type' = "md5" /\ writes' = <<>>
  /\ chunk_size' = 0 /\ total_chunked_size' = 0 /\ read_left_size' = 0
  /\ files' = {} /\ rec' = NoRec /\ rstream' = NoRStream
  /\ th' = "none" /\ current_sz' = 0
  /\ term' = <<>>
  /\ result' = Running
  /\ pre' = {}
  /\ apiOps' = 0

\* no bucket command is running, and the server holds no bucket
AdmIdle ==
  /\ colls = {} /\ buckets = {}
  /\ todo = {} /\ done_list = {} /\ yielded = <<>>
  /\ apc = "idle" /\ ares = Running
  /\ aname = NoneId /\ apre = {}

\* no library call has been made
NoCall == [fn |-> "none", arg |-> <<>>]
LibIdle == call = NoCall /\ out = NoCall

\* the engine before its first command, on an empty bucket
EngineIdle ==
  /\ store = {} /\ uploads = {} /\ nextId = 1
  /\ Locals
  /\ ncmd = 0

Init ==
  /\ backend \in Backends
  /\ EngineIdle
  /\ AdmIdle
  /\ LibIdle

\* a line written to the terminal; a progress line overwrites the one before it
Line(t, kind) ==
  IF kind = "progress" /\ t # <<>> /\ t[Len(t)] = "progress" THEN t ELSE Append(t, kind)

\* ------------------------------------------------------------------ other clients
\* another client of the same server stores a file in the bucket
OtherClientUpload(name, size, chunk, sha) ==
  /\ pc = "idle"
  /\ ncmd < MaxCmds
  /\ ncmd' = ncmd + 1
  /\ IF backend = "mongodb"
     THEN /\ store' = store \cup {[fid |-> nextId, filename |-> name,
                                   content |-> Bytes(size, 2), hash |-> md5(Bytes(size, 2)),
                                   chunk_size |-> chunk, sha |-> FALSE]}
          /\ nextId' = nextId + 1
     ELSE /\ store' = PutObject(store, [Obj(name, Bytes(size, 2), md5(Bytes(size, 2)))
                                          EXCEPT !.sha = sha])
          /\ nextId' = nextId
  /\ UNCHANGED <<backend, admVars, libVars, uploads, streamVars, pc, fileVars, xferVars, getVars,
                 thVars, term, result, pre, apiOps>>

\* ------------------------------------------------------------------ put_cmd
\* the split of put_cmd and get_cmd: int(size / chunk_size) * chunk_size
TotalChunked(size, chunk) == (size \div chunk) * chunk

\* a transfer that takes the final partial chunk only when more than one byte
\* is left
LoopPcSkipsLeft(c, pos, total, left) ==
  IF pos < total THEN (IF c = "put" THEN "put_loop" ELSE "get_loop")
  ELSE IF left > 1 THEN (IF c = "put" THEN "put_left" ELSE "get_left")
  ELSE IF c = "put" THEN "put_close" ELSE "get_join"

\* where the transfer continues once f.tell() is pos
LoopPc(c, pos, total, left) ==
  IF pos < total THEN (IF c = "put" THEN "put_loop" ELSE "get_loop")
  ELSE IF left > 0 THEN (IF c = "put" THEN "put_left" ELSE "get_left")
  ELSE IF c = "put" THEN "put_close" ELSE "get_join"

\* put_cmd up to th.start(): the source is opened, sized, and the progress
\* thread is started on it
PutStart(name, size, exists) ==
  /\ pc = "idle"
  /\ ncmd < MaxCmds
  /\ ncmd' = ncmd + 1
  /\ cmd' = "put"
  /\ filename' = name
  /\ hashed' = <<>> /\ hash_type' = "md5" /\ writes' = <<>>
  /\ term' = <<>>
  /\ pre' = store
  /\ stream' = NoStream /\ reqs' = <<>> /\ closes' = 0 /\ closeOk' = FALSE /\ late' = 0
  /\ IF exists
     THEN /\ fsize' = size
          /\ fdata' = SrcContent(size) /\ fpos' = 0 /\ fclosed' = FALSE
          /\ th' = "init" /\ current_sz' = 0
          /\ result' = Running
          /\ pc' = "put_open"
     ELSE /\ fsize' = 0
          /\ fdata' = <<>> /\ fpos' = 0 /\ fclosed' = TRUE
          /\ th' = "none" /\ current_sz' = 0
          /\ result' = Raised("ValueError")
          /\ pc' = "raised"
  /\ UNCHANGED <<backend, admVars, libVars, storeVars, chunk_size, total_chunked_size, read_left_size,
                 getVars, apiOps>>

\* stream = ctx.db.new_file(...) returned a stream; the split is computed.
\* The stream is the one new_file(bucket, filename, size) builds for size = fsize.
PutOpen(ok) ==
  /\ pc = "put_open"
  /\ LET e == NewFile(Cur, filename, fsize, nextId, ok)
         c == StreamChunkSize(e.stream)
     IN /\ uploads' = e.uploads
        /\ reqs' = e.reqs
        /\ IF e.exc # "none"
           THEN /\ stream' = stream /\ nextId' = nextId
                /\ fclosed' = TRUE
                /\ result' = Raised(e.exc)
                /\ pc' = "raised"
                /\ UNCHANGED <<chunk_size, total_chunked_size, read_left_size>>
           ELSE /\ stream' = e.stream /\ nextId' = nextId + 1
                /\ fclosed' = fclosed
                /\ result' = result
                /\ chunk_size' = c
                /\ total_chunked_size' = TotalChunked(fsize, c)
                /\ read_left_size' = fsize - TotalChunked(fsize, c)
                /\ pc' = LoopPc("put", fpos, TotalChunked(fsize, c),
                                fsize - TotalChunked(fsize, c))
  /\ UNCHANGED <<backend, admVars, libVars, store, closes, closeOk, late, cmd, filename, fsize, fdata, fpos,
                 hashed, hash_type, writes, getVars, thVars, term, pre, ncmd, apiOps>>

\* the call at line 188 passes (bucket, filename) only, while new_file of both
\* backends also requires size: the call is refused with TypeError, which
\* leaves the with block
PutOpenRefused ==
  /\ pc = "put_open"
  /\ fclosed' = TRUE
  /\ result' = Raised("TypeError")
  /\ pc' = "raised"
  /\ UNCHANGED <<backend, admVars, libVars, storeVars, streamVars, cmd, filename, fsize, fdata, fpos, hashed,
                 hash_type, writes, chunk_size, total_chunked_size, read_left_size,
                 getVars, thVars, term, pre, ncmd, apiOps>>

\* the bytes f.read(n) returns at position pos
ReadAt(data, pos, n) ==
  SubSeq(data, pos + 1, IF pos + n <= Len(data) THEN pos + n ELSE Len(data))

\* what arrives at the backend: the chunk store keeps what it is handed,
\* the object store refuses a part whose digest does not match
Sent(chunk, net) == IF backend = "mongodb" /\ net = "corrupt" THEN Corrupt(chunk) ELSE chunk
NetOk(net) == IF backend = "mongodb" THEN net # "fail" ELSE net = "ok"

\* one pass of a write step of put_cmd: read n bytes, write them, fold them
\* into the hash; on IOError close f and the stream and re-raise
PutTransfer(n, readok, net, closeok, nextpc) ==
  LET chunk == ReadAt(fdata, fpos, n)
      w == StreamWrite(Cur, Sent(chunk, net), NetOk(net))
      \* the try block raised IOError: in f.read, or in stream.write
      ioerror == ~readok \/ w.exc = "IOError"
      \* except IOError: f.close(); stream.close(); raise
      c == StreamClose(IF readok THEN w ELSE Cur, closeok)
      e == IF ioerror THEN c ELSE w
  IN /\ stream' = e.stream /\ store' = e.store /\ uploads' = e.uploads /\ reqs' = e.reqs
     /\ fpos' = IF readok THEN fpos + Len(chunk) ELSE fpos
     /\ writes' = IF readok THEN Append(writes, Len(chunk)) ELSE writes
     /\ closes' = IF ioerror THEN closes + 1 ELSE closes
     /\ late' = late
     /\ closeOk' = IF ioerror THEN (c.exc = "none") ELSE closeOk
     /\ IF ioerror
        THEN /\ fclosed' = TRUE
             /\ result' = Raised(IF c.exc = "none" THEN "IOError" ELSE c.exc)
             /\ pc' = "raised"
             /\ hashed' = hashed
        ELSE IF w.exc # "none"
        THEN \* an error that is no IOError leaves the with block at once
             /\ fclosed' = TRUE
             /\ result' = Raised(w.exc)
             /\ pc' = "raised"
             /\ hashed' = hashed
        ELSE /\ fclosed' = fclosed
             /\ result' = result
             /\ pc' = nextpc
             /\ hashed' = hashed \o chunk

\* while f.tell() < total_chunked_size: a full chunk
PutChunk(readok, net, closeok) ==
  /\ pc = "put_loop"
  /\ fpos < total_chunked_size
  /\ PutTransfer(chunk_size, readok, net, closeok,
                 LoopPc("put", fpos + chunk_size, total_chunked_size, read_left_size))
  /\ UNCHANGED <<backend, admVars, libVars, nextId, cmd, filename, fsize, fdata, hash_type, chunk_size,
                 total_chunked_size, read_left_size, getVars, thVars, term, pre,
                 ncmd, apiOps>>

\* if read_left_size > 0: the final partial chunk
PutLeft(readok, net, closeok) ==
  /\ pc = "put_left"
  /\ read_left_size > 0
  /\ PutTransfer(read_left_size, readok, net, closeok, "put_close")
  /\ UNCHANGED <<backend, admVars, libVars, nextId, cmd, filename, fsize, fdata, hash_type, chunk_size,
                 total_chunked_size, read_left_size, getVars, thVars, term, pre,
                 ncmd, apiOps>>

\* stream.close() at the end of the with block
PutClose(ok) ==
  /\ pc = "put_close"
  /\ LET c == StreamClose(Cur, ok)
     IN /\ stream' = c.stream /\ store' = c.store /\ uploads' = c.uploads
        /\ reqs' = c.reqs
        /\ closes' = closes + 1
        /\ closeOk' = (c.exc = "none")
        /\ late' = late
        /\ IF c.exc = "none"
           THEN /\ pc' = "put_join" /\ result' = result /\ fclosed' = fclosed
           ELSE /\ pc' = "raised" /\ result' = Raised(c.exc) /\ fclosed' = TRUE
  /\ UNCHANGED <<backend, admVars, libVars, nextId, xferVars, fdata, fpos, getVars, thVars, term, pre,
                 ncmd, apiOps>>

\* a put that leaves the with block without waiting for the thread
PutJoinNoWait ==
  /\ pc = "put_join"
  /\ fclosed' = TRUE
  /\ pc' = "put_verify"
  /\ UNCHANGED <<backend, admVars, libVars, storeVars, streamVars, xferVars, fdata, fpos, getVars,
                 thVars, term, result, pre, ncmd, apiOps>>

\* th.join(), then the with block closes f
PutJoin ==
  /\ pc = "put_join"
  /\ th \in {"done", "crashed"}
  /\ fclosed' = TRUE
  /\ pc' = "put_verify"
  /\ UNCHANGED <<backend, admVars, libVars, storeVars, streamVars, xferVars, fdata, fpos, getVars,
                 thVars, term, result, pre, ncmd, apiOps>>

\* the records the success branch of put_cmd deletes
Pruned(st, name, id) == {r \in st : r \in List(name) /\ r.fid # id}

\* the hash comparison of put_cmd and what follows it
PutVerify ==
  /\ pc = "put_verify"
  /\ IF StreamHashValue(stream) # md5(hashed)
     THEN LET d == Delete(store, StreamId(stream))
          IN /\ store' = d.store
             /\ IF d.exc = "none"
                THEN /\ term' = Line(Line(term, "clear"), "failed")
                     /\ result' = Returned("failed")
                     /\ pc' = "returned"
                ELSE /\ term' = Line(term, "clear")
                     /\ result' = Raised(d.exc)
                     /\ pc' = "raised"
     ELSE /\ store' = store \ Pruned(store, filename, StreamId(stream))
          /\ term' = Line(Line(term, "clear"), "transferred")
          /\ result' = Returned("transferred")
          /\ pc' = "returned"
  /\ UNCHANGED <<backend, admVars, libVars, uploads, nextId, streamVars, xferVars, fileVars, getVars,
                 thVars, pre, ncmd, apiOps>>

\* ------------------------------------------------------------------ get_cmd
\* the read stream list() attaches to a record: FileOut over GridOut on the
\* chunk store, MinioStreamOutProxy on the object store
ReadStreamOf(r) ==
  IF backend = "mongodb"
  THEN [opened |-> TRUE, closed |-> FALSE, pos |-> 0, hash_value |-> r.hash,
        hash_type |-> "md5",
        size |-> Len(r.content), chunk_size |-> r.chunk_size]
  ELSE [opened |-> FALSE, closed |-> FALSE, pos |-> 0, hash_value |-> r.hash,
        hash_type |-> "sha256",
        size |-> Len(r.content), chunk_size |-> MinioReadChunk]

\* MinioStreamOutProxy.__build_proxy on the first access: get_object, and the
\* hash of the X-Amz-Meta-Sha256 header when the object carries one
BuildProxy(rs, r) ==
  IF rs.opened THEN rs
  ELSE [rs EXCEPT !.opened = TRUE,
                  !.hash_value = IF r.sha THEN sha256(r.content) ELSE rs.hash_value]

\* hashlib.<hash_type>().hexdigest() over the bytes folded in
HexDigest(alg, data) == [alg |-> alg, data |-> data]

\* get_cmd up to the loop over the files
GetStart(filter) ==
  /\ pc = "idle"
  /\ ncmd < MaxCmds
  /\ ncmd' = ncmd + 1
  /\ cmd' = "get"
  /\ filename' = filter
  /\ files' = List(filter)
  /\ rec' = NoRec /\ rstream' = NoRStream
  /\ term' = <<>>
  /\ pre' = store
  /\ stream' = NoStream /\ reqs' = <<>> /\ closes' = 0 /\ closeOk' = FALSE /\ late' = 0
  /\ hashed' = <<>> /\ writes' = <<>>
  /\ fdata' = <<>> /\ fpos' = 0 /\ fclosed' = TRUE
  /\ th' = "none" /\ current_sz' = 0
  /\ IF List(filter) = {}
     THEN /\ result' = Raised("ValueError") /\ pc' = "raised"
     ELSE /\ result' = Running /\ pc' = "get_next"
  /\ UNCHANGED <<backend, admVars, libVars, storeVars, fsize, hash_type, chunk_size, total_chunked_size,
                 read_left_size, apiOps>>

\* for f_record in files: the destination is opened, the thread started and
\* the split computed; after the last file get_cmd returns
GetNext ==
  /\ pc = "get_next"
  /\ IF files = {}
     THEN /\ pc' = "returned"
          /\ result' = Returned(result.msg)
          /\ UNCHANGED <<files, rec, rstream, fsize, fdata, fpos, fclosed, hashed,
                         hash_type, writes, chunk_size, total_chunked_size,
                         read_left_size, th, current_sz>>
     ELSE \E r \in files :
            LET rs == ReadStreamOf(r)
            IN /\ files' = files \ {r}
               /\ rec' = r /\ rstream' = rs
               /\ fsize' = rs.size
               /\ fdata' = <<>> /\ fpos' = 0 /\ fclosed' = FALSE
               /\ hashed' = <<>> /\ hash_type' = rs.hash_type /\ writes' = <<>>
               /\ th' = "init" /\ current_sz' = 0
               /\ chunk_size' = rs.chunk_size
               /\ total_chunked_size' = TotalChunked(rs.size, rs.chunk_size)
               /\ read_left_size' = rs.size - TotalChunked(rs.size, rs.chunk_size)
               /\ pc' = LoopPc("get", 0, TotalChunked(rs.size, rs.chunk_size),
                               rs.size - TotalChunked(rs.size, rs.chunk_size))
               /\ result' = result
  /\ UNCHANGED <<backend, admVars, libVars, storeVars, streamVars, cmd, filename, term, pre, ncmd, apiOps>>

\* one pass of a read step of get_cmd: read n bytes from the stream, write
\* them to f, fold them into the hash; on IOError close f and re-raise
\* (f_record.stream.close() is called nowhere in get_cmd)
GetTransfer(n, writeok, nextpc) ==
  LET rs == BuildProxy(rstream, rec)
      chunk == ReadAt(rec.content, rs.pos, n)
  IN /\ rstream' = [rs EXCEPT !.pos = rs.pos + Len(chunk)]
     /\ IF writeok
        THEN /\ fdata' = fdata \o chunk
             /\ fpos' = fpos + Len(chunk)
             /\ fclosed' = fclosed
             /\ writes' = Append(writes, Len(chunk))
             /\ hashed' = hashed \o chunk
             /\ result' = result
             /\ pc' = nextpc
        ELSE /\ fclosed' = TRUE
             /\ result' = Raised("IOError")
             /\ pc' = "raised"
             /\ UNCHANGED <<fdata, fpos, writes, hashed>>

GetChunk(writeok) ==
  /\ pc = "get_loop"
  /\ fpos < total_chunked_size
  /\ GetTransfer(chunk_size, writeok,
                 LoopPc("get", fpos + chunk_size, total_chunked_size, read_left_size))
  /\ UNCHANGED <<backend, admVars, libVars, storeVars, streamVars, cmd, filename, fsize, hash_type,
                 chunk_size, total_chunked_size, read_left_size, files, rec, thVars,
                 term, pre, ncmd, apiOps>>

GetLeft(writeok) ==
  /\ pc = "get_left"
  /\ read_left_size > 0
  /\ GetTransfer(read_left_size, writeok, "get_join")
  /\ UNCHANGED <<backend, admVars, libVars, storeVars, streamVars, cmd, filename, fsize, hash_type,
                 chunk_size, total_chunked_size, read_left_size, files, rec, thVars,
                 term, pre, ncmd, apiOps>>

\* th.join(), then the with block closes f
GetJoin ==
  /\ pc = "get_join"
  /\ th \in {"done", "crashed"}
  /\ fclosed' = TRUE
  /\ pc' = "get_verify"
  /\ UNCHANGED <<backend, admVars, libVars, storeVars, streamVars, xferVars, fdata, fpos, getVars,
                 thVars, term, result, pre, ncmd, apiOps>>

\* a get that ends at the first file whose hash differs
GetVerifyAborts ==
  /\ pc = "get_verify"
  /\ LET msg == IF rstream.hash_value # HexDigest(hash_type, hashed)
                THEN "failed" ELSE "transferred"
     IN /\ term' = Line(Line(term, "clear"), msg)
        /\ result' = IF msg = "failed" THEN Raised("ValueError")
                     ELSE [result EXCEPT !.msg = msg]
        /\ pc' = IF msg = "failed" THEN "raised" ELSE "get_next"
  /\ UNCHANGED <<backend, admVars, libVars, storeVars, streamVars, xferVars, fileVars, getVars,
                 thVars, pre, ncmd, apiOps>>

\* the hash comparison of get_cmd
GetVerify ==
  /\ pc = "get_verify"
  /\ LET msg == IF rstream.hash_value # HexDigest(hash_type, hashed)
                THEN "failed" ELSE "transferred"
     IN /\ term' = Line(Line(term, "clear"), msg)
        /\ result' = [result EXCEPT !.msg = msg]
  /\ pc' = "get_next"
  /\ UNCHANGED <<backend, admVars, libVars, storeVars, streamVars, xferVars, fileVars, getVars,
                 thVars, pre, ncmd, apiOps>>

\* ------------------------------------------------------------------ print_io_status
\* prev_sz = f_obj.tell() before the loop
ThInit ==
  /\ th = "init"
  /\ th' = IF fclosed THEN "crashed" ELSE "check"
  /\ UNCHANGED <<backend, admVars, libVars, storeVars, streamVars, pc, xferVars, fileVars, getVars,
                 current_sz, term, result, pre, ncmd, apiOps>>

\* a loop that goes on while current_sz <= total_sz
ThCheckUpToTotal ==
  /\ th = "check"
  /\ th' = IF ~fclosed /\ current_sz <= fsize THEN "tell" ELSE "done"
  /\ UNCHANGED <<backend, admVars, libVars, storeVars, streamVars, pc, xferVars, fileVars, getVars,
                 current_sz, term, result, pre, ncmd, apiOps>>

\* while not f_obj.closed and current_sz < total_sz
ThCheck ==
  /\ th = "check"
  /\ th' = IF ~fclosed /\ current_sz < fsize THEN "tell" ELSE "done"
  /\ UNCHANGED <<backend, admVars, libVars, storeVars, streamVars, pc, xferVars, fileVars, getVars,
                 current_sz, term, result, pre, ncmd, apiOps>>

\* current_sz = f_obj.tell() and the progress line
ThTell ==
  /\ th = "tell"
  /\ IF fclosed
     THEN /\ th' = "crashed" /\ UNCHANGED <<current_sz, term>>
     ELSE /\ th' = "check"
          /\ current_sz' = fpos
          /\ term' = Line(term, "progress")
  /\ UNCHANGED <<backend, admVars, libVars, storeVars, streamVars, pc, xferVars, fileVars, getVars,
                 result, pre, ncmd, apiOps>>

\* ------------------------------------------------------------------ direct use of a stream
\* a caller of the backend interface opens a write stream
ApiNewFile(name, size, ok) ==
  /\ pc = "idle"
  /\ ncmd < MaxCmds
  /\ ncmd' = ncmd + 1
  /\ LET e == NewFile(Cur, name, size, nextId, ok)
     IN /\ uploads' = e.uploads /\ reqs' = e.reqs
        /\ stream' = e.stream
        /\ IF e.exc = "none"
           THEN /\ nextId' = nextId + 1 /\ pc' = "api" /\ result' = Running
           ELSE /\ nextId' = nextId /\ pc' = "raised" /\ result' = Raised(e.exc)
  /\ cmd' = "api"
  /\ filename' = name /\ fsize' = size
  /\ closes' = 0 /\ closeOk' = FALSE /\ late' = 0
  /\ apiOps' = 0
  /\ pre' = store
  /\ term' = <<>>
  /\ writes' = <<>> /\ hashed' = <<>>
  /\ UNCHANGED <<backend, admVars, libVars, store, hash_type, chunk_size, total_chunked_size,
                 read_left_size, fileVars, getVars, thVars>>

\* stream.write(b) by that caller, before or after close
ApiWrite(ok) ==
  /\ pc = "api"
  /\ apiOps < MaxApiOps
  /\ apiOps' = apiOps + 1
  /\ LET b == <<apiOps + 1>>
         e == StreamWrite(Cur, b, ok)
     IN /\ stream' = e.stream /\ store' = e.store /\ uploads' = e.uploads
        /\ reqs' = e.reqs
        /\ writes' = Append(writes, Len(b))
        /\ hashed' = IF e.exc = "none" THEN hashed \o b ELSE hashed
        /\ result' = IF e.exc = "none" THEN Running ELSE Raised(e.exc)
  /\ late' = IF closes >= 1 THEN late + 1 ELSE late
  /\ UNCHANGED <<backend, admVars, libVars, nextId, closes, closeOk, cmd, pc, filename, fsize, hash_type,
                 chunk_size, total_chunked_size, read_left_size, fileVars, getVars,
                 thVars, term, pre, ncmd>>

\* stream.close() by that caller, for the first time or again
ApiClose(ok) ==
  /\ pc = "api"
  /\ apiOps < MaxApiOps
  /\ apiOps' = apiOps + 1
  /\ LET e == StreamClose(Cur, ok)
     IN /\ stream' = e.stream /\ store' = e.store /\ uploads' = e.uploads
        /\ reqs' = e.reqs
        /\ closes' = closes + 1
        /\ closeOk' = (e.exc = "none")
        /\ late' = IF closes >= 1 THEN late + 1 ELSE late
        /\ result' = IF e.exc = "none" THEN Running ELSE Raised(e.exc)
  /\ UNCHANGED <<backend, admVars, libVars, nextId, pc, xferVars, fileVars, getVars, thVars, term, pre,
                 ncmd>>

\* that caller is done with the stream
ApiDone ==
  /\ pc = "api"
  /\ ResetLocals
  /\ UNCHANGED <<backend, admVars, libVars, storeVars, ncmd>>

\* ------------------------------------------------------------------ del_cmd
\* del_cmd with a filename: ctx.db.list returns a generator object, which is
\* true whatever it yields, so the not-found branch is never taken; every
\* listed record is deleted
DelCmd(filter) ==
  /\ pc = "idle"
  /\ ncmd < MaxCmds
  /\ ncmd' = ncmd + 1
  /\ cmd' = "rm"
  /\ filename' = filter
  /\ pre' = store
  /\ store' = store \ List(filter)
  /\ term' = <<>>
  /\ result' = Returned("none")
  /\ pc' = "returned"
  /\ UNCHANGED <<backend, admVars, libVars, uploads, nextId, streamVars, fsize, fdata,
                 fpos, fclosed, hashed, hash_type, writes, chunk_size, total_chunked_size,
                 read_left_size, files, rec, rstream, thVars, apiOps>>

\* ------------------------------------------------------------------ process exit
\* main_entry: the command returned, or raised and the process exits with -1;
\* the process ends once the progress thread has ended
Exit ==
  /\ pc \in {"returned", "raised"}
  /\ th \in {"none", "done", "crashed"}
  /\ ResetLocals
  /\ UNCHANGED <<backend, admVars, libVars, storeVars, ncmd>>

Nets == {"ok", "corrupt", "fail"}

Next ==
  \/ \E n \in FileNames, c \in {1, GridChunk}, sha \in BOOLEAN :
       OtherClientUpload(n, MaxSize, c, sha)
  \/ \E n \in FileNames, sz \in 0..MaxSize, ex \in BOOLEAN : PutStart(n, sz, ex)
  \/ \E ok \in BOOLEAN : PutOpen(ok)
  \/ PutOpenRefused
  \/ \E readok \in BOOLEAN, net \in Nets, closeok \in BOOLEAN : PutChunk(readok, net, closeok)
  \/ \E readok \in BOOLEAN, net \in Nets, closeok \in BOOLEAN : PutLeft(readok, net, closeok)
  \/ \E ok \in BOOLEAN : PutClose(ok)
  \/ PutJoin
  \/ PutVerify
  \/ \E f \in FileNames \cup {NoneId} : GetStart(f)
  \/ GetNext
  \/ \E ok \in BOOLEAN : GetChunk(ok)
  \/ \E ok \in BOOLEAN : GetLeft(ok)
  \/ GetJoin
  \/ GetVerify
  \/ \E f \in FileNames : DelCmd(f)
  \/ ThInit
  \/ ThCheck
  \/ ThTell
  \/ \E n \in FileNames, sz \in {MIN_PART_SIZE, MIN_PART_SIZE + 1}, ok \in BOOLEAN :
       ApiNewFile(n, sz, ok)
  \/ \E ok \in BOOLEAN : ApiWrite(ok)
  \/ \E ok \in BOOLEAN : ApiClose(ok)
  \/ ApiDone
  \/ Exit

Spec == Init /\ [][Next]_vars

\* the steps of the main thread of a running put or get
MainStep ==
  \/ \E ok \in BOOLEAN : PutOpen(ok)
  \/ PutOpenRefused
  \/ \E readok \in BOOLEAN, net \in Nets, closeok \in BOOLEAN : PutChunk(readok, net, closeok)
  \/ \E readok \in BOOLEAN, net \in Nets, closeok \in BOOLEAN : PutLeft(readok, net, closeok)
  \/ \E ok \in BOOLEAN : PutClose(ok)
  \/ PutJoin
  \/ PutVerify
  \/ GetNext
  \/ \E ok \in BOOLEAN : GetChunk(ok)
  \/ \E ok \in BOOLEAN : GetLeft(ok)
  \/ GetJoin
  \/ GetVerify

\* the steps of the progress thread
ThStep == ThInit \/ ThCheck \/ ThTell

\* the put and get commands, their threads, and the end of the process
NextTransfer ==
  \/ \E n \in FileNames, sz \in 0..MaxSize, ex \in BOOLEAN : PutStart(n, sz, ex)
  \/ \E f \in FileNames \cup {NoneId} : GetStart(f)
  \/ MainStep
  \/ ThStep
  \/ Exit

\* ------------------------------------------------------------------ buckets
\* Collection names are sequences of symbols; "." and the two GridFS table
\* names "chunks" and "files" are symbols of their own.
BucketNames == {<<"a">>, <<"b">>}
CollectionNames ==
  {n \o <<".", t>> : n \in BucketNames, t \in {"chunks", "files"}}
    \cup {<<"a", ".", "x">>, <<"a", "x">>}

Max(S) == CHOOSE x \in S : \A y \in S : x >= y

\* str.rfind(ch): the 0-based index of the last ch, or -1
RFind(str, ch) ==
  IF \E i \in 1..Len(str) : str[i] = ch
  THEN Max({i \in 1..Len(str) : str[i] = ch}) - 1
  ELSE -1

\* str[:k], also for negative k
UpTo(str, k) ==
  IF k >= 0 THEN SubSeq(str, 1, IF k <= Len(str) THEN k ELSE Len(str))
  ELSE SubSeq(str, 1, IF Len(str) + k >= 0 THEN Len(str) + k ELSE 0)

\* str.rpartition(ch)[2]: what follows the last ch, the whole string without one
AfterLast(str, ch) == SubSeq(str, RFind(str, ch) + 2, Len(str))

\* GridFSTable(raw_name.rpartition(".")[2]), None when that is no table name
RecordType(raw_name) ==
  LET t == AfterLast(raw_name, ".")
  IN IF t = <<"chunks">> THEN "chunks" ELSE IF t = <<"files">> THEN "files" ELSE "none"

\* the name under which bucket_list files a collection
BucketOf(raw_name) == UpTo(raw_name, RFind(raw_name, "."))

\* the collStats of a collection: every collection reports a size and a count
CollStats(raw_name) ==
  [size |-> (IF raw_name[1] = "a" THEN 2 ELSE 3)
            + (IF RecordType(raw_name) = "chunks" THEN 2 ELSE 0),
   count |-> IF raw_name[1] = "a" THEN 1 ELSE 0]

\* BucketItemRecord(bid=[], size=SizeScale(0), name=name, raw=[])
NewBucketItem(name) ==
  [name |-> name, size |-> 0, files |-> 0, dated |-> FALSE, raw |-> <<>>]

\* the entry of done_list under a name; gone = the entry was set to None
DoneEntry(name) == CHOOSE e \in done_list : e.name = name

\* another client creates a collection, or a bucket holding files objects
AdmCreate(raw_name, nfiles) ==
  /\ apc = "idle"
  /\ IF backend = "mongodb"
     THEN /\ raw_name \notin colls
          /\ colls' = colls \cup {raw_name}
          /\ buckets' = buckets
     ELSE /\ \A b \in buckets : b.name # BucketOf(raw_name)
          /\ buckets' = buckets \cup {[name |-> BucketOf(raw_name), files |-> nfiles]}
          /\ colls' = colls
  /\ UNCHANGED <<backend, engineVars, libVars, todo, done_list, yielded, apc, ares,
                 aname, apre>>

\* MongoStorage.bucket_list up to the loop: list_collections() is called
BucketListStart ==
  /\ apc = "idle"
  /\ backend = "mongodb"
  /\ todo' = colls
  /\ done_list' = {}
  /\ yielded' = <<>>
  /\ apc' = "listing"
  /\ ares' = Running
  /\ aname' = NoneId
  /\ apre' = colls
  /\ UNCHANGED <<backend, engineVars, libVars, colls, buckets>>

\* one pass of the loop of bucket_list, for the collection the enumeration
\* delivers next
BucketListNext(raw_name) ==
  /\ apc = "listing"
  /\ raw_name \in todo
  /\ todo' = todo \ {raw_name}
  /\ LET name == BucketOf(raw_name)
         col_stats == CollStats(raw_name)
         record_type == RecordType(raw_name)
         known == \E e \in done_list : e.name = name
     IN IF known /\ DoneEntry(name).gone
        THEN \* done_list[name] is None: done_list[name][0] raises
             /\ apc' = "raised"
             /\ ares' = Raised("TypeError")
             /\ UNCHANGED <<done_list, yielded>>
        ELSE LET old == IF known THEN DoneEntry(name)
                        ELSE [name |-> name, tables_done |-> 0,
                              bucket |-> NewBucketItem(name), gone |-> FALSE]
                 b1 == IF record_type = "chunks"
                       THEN [old.bucket EXCEPT !.size = old.bucket.size + col_stats.size]
                       ELSE IF record_type = "files"
                       THEN [old.bucket EXCEPT !.files = col_stats.count,
                                               !.dated = col_stats.count > 0]
                       ELSE old.bucket
                 tables_done == IF record_type = "none" THEN old.tables_done
                                ELSE old.tables_done + 1
                 bucket == [b1 EXCEPT !.raw = Append(b1.raw, raw_name)]
                 rest == {e \in done_list : e.name # name}
             IN /\ done_list' = rest \cup
                      {[name |-> name, tables_done |-> tables_done, bucket |-> bucket,
                        gone |-> tables_done = 2]}
                /\ yielded' = IF tables_done = 2 THEN Append(yielded, bucket) ELSE yielded
                /\ apc' = apc
                /\ ares' = ares
  /\ UNCHANGED <<backend, engineVars, libVars, colls, buckets, aname, apre>>

\* the enumeration is exhausted: bucket_list ends
BucketListEnd ==
  /\ apc = "listing"
  /\ todo = {}
  /\ apc' = "returned"
  /\ ares' = Returned("listed")
  /\ UNCHANGED <<backend, engineVars, libVars, colls, buckets, todo, done_list, yielded,
                 aname, apre>>

\* bucket_exists(name) on a server holding the collections cs, the buckets bs
BucketExistsIn(name, cs, bs) ==
  IF backend = "mongodb" THEN (name \o <<".", "chunks">>) \in cs
  ELSE \E b \in bs : b.name = name

\* the collections drop_bucket drops
DropList(name) == {name \o <<".", "chunks">>, name \o <<".", "files">>}

\* remove_bucket on the object store: the server removes an empty bucket only
RemoveBucketRefused(name) == \E b \in buckets : b.name = name /\ b.files > 0

\* bucket_command with the arguments rm <name>. On the chunk store drop_bucket
\* calls drop_collection for the chunks and then for the files collection:
\* dropped is the number of these calls that complete before one raises (2: none
\* raises), and the driver's error is passed on as it is, named telling whether
\* its message happens to mention the collection
BucketDrop(name, dropped, named) ==
  /\ apc = "idle"
  /\ aname' = name
  /\ apre' = IF backend = "mongodb" THEN colls ELSE buckets
  /\ IF ~BucketExistsIn(name, colls, buckets)
     THEN /\ apc' = "raised"
          /\ ares' = Raised("ValueError")
          /\ UNCHANGED <<colls, buckets>>
     ELSE IF backend = "mongodb"
     THEN /\ colls' = colls \ (IF dropped = 0 THEN {}
                               ELSE IF dropped = 1 THEN {name \o <<".", "chunks">>}
                               ELSE DropList(name))
          /\ buckets' = buckets
          /\ apc' = IF dropped = 2 THEN "returned" ELSE "raised"
          /\ ares' = IF dropped = 2 THEN Returned("dropped")
                     ELSE [Raised("PyMongoError") EXCEPT
                             !.msg = IF ~named THEN "none"
                                     ELSE IF dropped = 0 THEN "chunks" ELSE "files"]
     ELSE IF RemoveBucketRefused(name)
     THEN /\ apc' = "raised"
          /\ ares' = Raised("ResponseError")
          /\ UNCHANGED <<colls, buckets>>
     ELSE /\ buckets' = {b \in buckets : b.name # name}
          /\ colls' = colls
          /\ apc' = "returned"
          /\ ares' = Returned("dropped")
  /\ UNCHANGED <<backend, engineVars, libVars, todo, done_list, yielded>>

\* the process of the bucket command ends
AdmExit ==
  /\ apc \in {"returned", "raised"}
  /\ todo' = {} /\ done_list' = {} /\ yielded' = <<>>
  /\ apc' = "idle" /\ ares' = Running
  /\ aname' = NoneId /\ apre' = {}
  /\ UNCHANGED <<backend, engineVars, libVars, colls, buckets>>

InitBuckets ==
  /\ backend \in Backends
  /\ EngineIdle
  /\ AdmIdle
  /\ LibIdle

NextBuckets ==
  \/ \E c \in CollectionNames, n \in 0..1 : AdmCreate(c, n)
  \/ BucketListStart
  \/ \E c \in CollectionNames : BucketListNext(c)
  \/ BucketListEnd
  \/ \E n \in BucketNames, dropped \in 0..2, named \in BOOLEAN : BucketDrop(n, dropped, named)
  \/ AdmExit

SpecBuckets == InitBuckets /\ [][NextBuckets]_vars

\* ------------------------------------------------------------------ get from a filled bucket
\* a file another client stored: a GridFS file, or an object with or without
\* the X-Amz-Meta-Sha256 header
StoredFile(i, name, sha) ==
  IF backend = "mongodb"
  THEN [fid |-> i, filename |-> name, content |-> Bytes(MaxSize, 2),
        hash |-> md5(Bytes(MaxSize, 2)), chunk_size |-> GridChunk, sha |-> FALSE]
  ELSE [Obj(name, Bytes(MaxSize, 2), md5(Bytes(MaxSize, 2))) EXCEPT !.sha = sha]

\* the bucket holds the files of two uploads
InitGet ==
  /\ backend \in Backends
  /\ \E n1, n2 \in FileNames, s1, s2 \in BOOLEAN :
       store = PutObject({StoredFile(1, n1, s1)}, StoredFile(2, n2, s2))
  /\ uploads = {} /\ nextId = 3
  /\ Locals
  /\ ncmd = 0
  /\ AdmIdle
  /\ LibIdle

NextGet ==
  \/ \E f \in FileNames \cup {NoneId} : GetStart(f)
  \/ GetNext
  \/ \E ok \in BOOLEAN : GetChunk(ok)
  \/ \E ok \in BOOLEAN : GetLeft(ok)
  \/ GetJoin
  \/ GetVerify
  \/ ThInit
  \/ ThCheck
  \/ ThTell
  \/ Exit

SpecGet == InitGet /\ [][NextGet]_vars

\* puts and gets in a bucket that starts empty, with a scheduler that lets
\* each of the two threads run as long as it can
SpecFair == Init /\ [][NextTransfer]_vars /\ WF_vars(MainStep) /\ WF_vars(ThStep)

\* ------------------------------------------------------------------ the commands as shipped
\* put_cmd with the call of line 188 as it stands: no put gets past the open
NextShipped ==
  \/ \E n \in FileNames, c \in {1, GridChunk}, sha \in BOOLEAN :
       OtherClientUpload(n, MaxSize, c, sha)
  \/ \E n \in FileNames, sz \in 0..MaxSize, ex \in BOOLEAN : PutStart(n, sz, ex)
  \/ PutOpenRefused
  \/ \E f \in FileNames \cup {NoneId} : GetStart(f)
  \/ GetNext
  \/ \E ok \in BOOLEAN : GetChunk(ok)
  \/ \E ok \in BOOLEAN : GetLeft(ok)
  \/ GetJoin
  \/ GetVerify
  \/ \E f \in FileNames : DelCmd(f)
  \/ ThInit
  \/ ThCheck
  \/ ThTell
  \/ Exit

SpecShipped == Init /\ [][NextShipped]_vars

\* ------------------------------------------------------------------ factory
\* A connection string is a sequence of symbols: words, and the separators
\* "://", "/", "@", ":", "?", "=", "&" as symbols of their own.
STORAGES == {<<"mongodb">>, <<"minio">>, <<"s3">>}
Schemes == STORAGES \cup {<<"ftp">>, <<>>}

\* the 1-based index of the first sep in str, 0 without one
Find(str, sep) ==
  IF \E i \in 1..Len(str) : str[i] = sep
  THEN CHOOSE i \in 1..Len(str) : str[i] = sep /\ \A j \in 1..(i - 1) : str[j] # sep
  ELSE 0

\* str.partition(sep): <<head, sep, tail>>, and <<str, "", "">> without a sep
Partition(str, sep) ==
  LET i == Find(str, sep)
  IN IF i = 0 THEN <<str, <<>>, <<>>>>
     ELSE <<SubSeq(str, 1, i - 1), <<sep>>, SubSeq(str, i + 1, Len(str))>>

\* str.split(sep)
RECURSIVE Split(_, _)
Split(str, sep) ==
  LET i == Find(str, sep)
  IN IF i = 0 THEN <<str>>
     ELSE <<SubSeq(str, 1, i - 1)>> \o Split(SubSeq(str, i + 1, Len(str)), sep)

NoAuth == [user |-> <<>>, password |-> <<>>, given |-> FALSE]
\* the call StorageCredentials(*parts) with other than two parts
BadAuth == [user |-> <<>>, password |-> <<>>, given |-> TRUE]

\* StorageCredentials.from_string: the constructor takes exactly two arguments
FromString(creds) ==
  LET parts == Split(creds, ":")
  IN IF Len(parts) = 2
     THEN [user |-> parts[1], password |-> parts[2], given |-> TRUE]
     ELSE BadAuth

\* the dict comprehension over the entries: a later key replaces an earlier one
RECURSIVE DictOf(_)
DictOf(entries) ==
  IF entries = <<>> THEN {}
  ELSE LET n == Len(entries)
           kv == Partition(entries[n], "=")
           before == DictOf(SubSeq(entries, 1, n - 1))
       IN {e \in before : e[1] # kv[1]} \cup {<<kv[1], kv[3]>>}

NonEmpty(entry) == entry # <<>>

NoDb == [cls |-> <<>>, host |-> <<>>, port |-> <<>>, bucket |-> <<>>, auth |-> NoAuth,
         options |-> {}, made |-> FALSE]

\* a factory that does not check the scheme
RegisteredAny(storage_name) == TRUE

\* the check of the scheme against the registered names
Registered(storage_name) == storage_name \in STORAGES

\* StorageFactory.get: the exception it raises, or the backend object it builds
Get(connection_string) ==
  LET p1 == Partition(connection_string, "://")
      storage_name == p1[1]
      p2 == Partition(p1[3], "/")
      has_auth == Find(p2[1], "@") # 0
      pa == Partition(p2[1], "@")
      auth == IF has_auth THEN FromString(pa[1]) ELSE NoAuth
      chunk == IF has_auth THEN pa[3] ELSE p2[1]
      hp == Partition(chunk, ":")
      bo == Partition(p2[3], "?")
      options == DictOf(SelectSeq(Split(bo[3], "&"), NonEmpty))
  IN IF ~Registered(storage_name) THEN [exc |-> "ValueError", db |-> NoDb]
     ELSE IF auth = BadAuth THEN [exc |-> "TypeError", db |-> NoDb]
     ELSE [exc |-> "none",
           db |-> [cls |-> storage_name, host |-> hp[1], port |-> hp[3], bucket |-> bo[1],
                   auth |-> auth, options |-> options, made |-> TRUE]]

\* the connection strings handed to the factory: those of the grammar, and
\* strings with an unknown scheme, without "://", or with malformed credentials
Auths == {<<>>, <<"u", ":", "p", "@">>, <<"u", "@">>}
Ports == {<<>>, <<":", "27017">>}
BucketParts == {<<>>, <<"/">>, <<"/", "b">>}
OptionParts ==
  {<<>>, <<"?">>, <<"?", "k", "=", "v">>, <<"?", "k", "=", "v", "&", "j", "=", "w">>,
   <<"?", "k", "=", "v", "&", "k", "=", "w">>}
ConnectionStrings ==
  {sch \o <<"://">> \o a \o <<"h">> \o pt \o b \o o :
     sch \in Schemes, a \in Auths, pt \in Ports, b \in BucketParts, o \in OptionParts}
  \cup {<<"mongodb", ":", "h">>}

\* main: db = StorageFactory.get(cfg.connection_url); db.connect()
\* net counts the network operations attempted
MainConnect(cs, ok) ==
  /\ call = NoCall
  /\ call' = [fn |-> "get", arg |-> cs]
  /\ LET r == Get(cs)
     IN out' =
          IF r.exc # "none" THEN [fn |-> "get", exc |-> r.exc, db |-> r.db, net |-> 0]
          ELSE IF r.db.cls # <<"mongodb">> /\ ~r.db.auth.given
          THEN [fn |-> "get", exc |-> "AttributeError", db |-> r.db, net |-> 0]
          ELSE [fn |-> "get", exc |-> IF ok THEN "none" ELSE "ConnectionError",
                db |-> r.db, net |-> 1]
  /\ UNCHANGED <<backend, engineVars, admVars>>

\* the process ends
LibExit ==
  /\ call # NoCall
  /\ call' = NoCall /\ out' = NoCall
  /\ UNCHANGED <<backend, engineVars, admVars>>

\* ---- the stream wrappers
ReadStreams == {"FileOut", "MinioStreamOutProxy"}
WriteStreams == {"FileIn", "MinIOStreamInProxy"}
IsWriteOp(op) == op \in {"write", "writelines", "truncate"}
IsReadOp(op) ==
  op \in {"read", "read1", "readinto", "readinto1", "readline", "readlines", "getvalue",
          "iterate"}

\* the calls a client makes: an operation and the number of arguments it passes
StreamCalls ==
  {<<"write", 1>>, <<"writelines", 1>>, <<"truncate", 0>>, <<"truncate", 1>>,
   <<"read", 0>>, <<"read", 1>>, <<"read1", 0>>, <<"read1", 1>>, <<"readinto", 1>>,
   <<"readinto1", 1>>, <<"readline", 0>>, <<"readline", 1>>, <<"readlines", 0>>,
   <<"readlines", 1>>, <<"getvalue", 0>>, <<"iterate", 0>>}

\* what the attribute of the wrapper is bound to after __init__: "ex" is the
\* lambda without parameters that raises NotImplementedError, "inner" a
\* method of the wrapped stream, "base" the method BytesIO gives the wrapper
\* (iteration looks __iter__ up on the class, so it is BytesIO's as well)
Binding(cls, op) ==
  IF cls \in ReadStreams
  THEN IF op \in {"write", "writelines"} THEN "ex"
       ELSE IF op \in {"read", "readline"} THEN "inner"
       ELSE "base"
  ELSE IF op \in {"read", "read1", "readinto", "readinto1", "readline", "readlines"} THEN "ex"
       ELSE IF op \in {"write", "writelines"} THEN "inner"
       ELSE "base"

\* the exception of the call, "none" when it returns
CallOutcome(cls, op, nargs) ==
  IF Binding(cls, op) = "ex"
  THEN IF nargs = 0 THEN "NotImplementedError" ELSE "TypeError"
  ELSE "none"

\* a client calls an operation of a stream whose wrapped stream stands at
\* position p and is closed or not, and whose object is stored or not; the
\* buffer of the wrapper itself is empty, so that a "base" method reads
\* nothing from it, truncates nothing of it, and leaves the wrapped stream alone
StreamOp(cls, c, p, closed) ==
  /\ call = NoCall
  /\ Binding(cls, c[1]) # "inner"
  /\ call' = [fn |-> "stream", arg |-> <<cls, c[1], c[2]>>]
  /\ LET before == [pos |-> p, closed |-> closed, object |-> cls \in ReadStreams]
     IN out' = [fn |-> "stream", exc |-> CallOutcome(cls, c[1], c[2]),
                before |-> before, after |-> before]
  /\ UNCHANGED <<backend, engineVars, admVars>>

\* ---- SizeScale
\* A size is m * 1024^e, written <<m, e>>, with m below 1024 * 1024; a scaled
\* value is written the same way, with e negative for a fraction.
kb == 1024
Units == <<" b", "kb", "mb", "gb", "tb", "pb">>

RECURSIVE Pow(_, _)
Pow(b, n) == IF n = 0 THEN 1 ELSE b * Pow(b, n - 1)

\* m * 1024^e <= 1024^j
LePow(m, e, j) ==
  IF m <= 0 THEN TRUE
  ELSE IF j < e THEN FALSE
  ELSE IF j - e > 2 THEN TRUE
  ELSE m <= Pow(kb, j - e)

\* m * 1024^e >= 1024^j
GePow(m, e, j) ==
  IF m <= 0 THEN FALSE
  ELSE IF j < e THEN TRUE
  ELSE IF j - e > 2 THEN FALSE
  ELSE m >= Pow(kb, j - e)

\* SizeScale.scale: size / unit <= scale_factor is size <= unit * 1024
scale(m, e) ==
  IF LePow(m, e, 2) THEN [value |-> <<m, e - 1>>, unit |-> "kb"]
  ELSE IF LePow(m, e, 3) THEN [value |-> <<m, e - 2>>, unit |-> "mb"]
  ELSE IF LePow(m, e, 4) THEN [value |-> <<m, e - 3>>, unit |-> "gb"]
  ELSE IF LePow(m, e, 5) THEN [value |-> <<m, e - 4>>, unit |-> "tb"]
  ELSE IF GePow(m, e, 6) THEN [value |-> <<m, e - 5>>, unit |-> "pb"]
  ELSE [value |-> <<m, e>>, unit |-> " b"]

\* the sizes scaled: around each power of 1024, and zero and a negative size
Mantissas == {-5, 0, 1, 2, 999, 1023, 1025}
Exponents == 0..6

\* SizeScale(item): the constructor calls scale
Scale(m, e) ==
  /\ call = NoCall
  /\ call' = [fn |-> "scale", arg |-> <<m, e>>]
  /\ out' = [fn |-> "scale", exc |-> "none", value |-> scale(m, e).value,
             unit |-> scale(m, e).unit]
  /\ UNCHANGED <<backend, engineVars, admVars>>

\* ---- MinioStreamOutProxy
MaxStreamOps == 3
ProxyOps == {"read", "readline", "tell", "seek", "close", "iterate"}

\* a proxy method that asks for the object whatever the state of the handle
NeedsBuildAlways(rs) == TRUE

\* if not self.__f_handle
NeedsBuild(rs) == ~rs.handle

\* what an operation runs: the instance attribute FileOut.__init__ or
\* __build_proxy bound, and for iteration the method of the class
Bound(rs, op) == IF op = "iterate" THEN "proxy" ELSE rs.bind

\* MinIOStorage.list yields a record with a new MinioStreamOutProxy: __init__
\* binds close, read, readline, tell, seek to the methods of the proxy itself
\* and asks the server for nothing
RsList ==
  /\ call = NoCall
  /\ call' = [fn |-> "rstream", arg |-> <<"list", 0>>]
  /\ out' = [fn |-> "rstream", exc |-> "none", handle |-> FALSE, bind |-> "proxy",
             gets |-> 0, closed |-> FALSE]
  /\ UNCHANGED <<backend, engineVars, admVars>>

\* an operation on that stream: a proxy method calls __build_proxy when no
\* handle is set (get_object, which succeeds or raises), then the operation
\* of the handle; what the response object does once it is closed is the
\* HTTP library's matter: the operation returns or raises (ok)
RsOp(op, ok) ==
  /\ call.fn = "rstream"
  /\ call.arg[2] < MaxStreamOps
  /\ call' = [fn |-> "rstream", arg |-> <<op, call.arg[2] + 1>>]
  /\ LET build == Bound(out, op) = "proxy" /\ NeedsBuild(out)
         opened == IF build /\ ok
                   THEN [out EXCEPT !.handle = TRUE, !.bind = "handle", !.gets = out.gets + 1]
                   ELSE out
     IN out' = IF build /\ ~ok
               THEN [out EXCEPT !.gets = out.gets + 1, !.exc = "Error"]
               ELSE [opened EXCEPT !.exc = IF opened.closed /\ op # "close" /\ ~ok
                                            THEN "ValueError" ELSE "none",
                                   !.closed = IF op = "close" THEN TRUE ELSE opened.closed]
  /\ UNCHANGED <<backend, engineVars, admVars>>

InitLib ==
  /\ backend \in Backends
  /\ EngineIdle
  /\ AdmIdle
  /\ LibIdle

NextLib ==
  \/ \E cs \in ConnectionStrings, ok \in BOOLEAN : MainConnect(cs, ok)
  \/ \E cls \in ReadStreams \cup WriteStreams, c \in StreamCalls, p \in 0..1,
        closed \in BOOLEAN : StreamOp(cls, c, p, closed)
  \/ \E m \in Mantissas, e \in Exponents : Scale(m, e)
  \/ RsList
  \/ \E op \in ProxyOps, ok \in BOOLEAN : RsOp(op, ok)
  \/ LibExit

SpecLib == InitLib /\ [][NextLib]_vars

\* ------------------------------------------------------------------ properties
RECURSIVE SumSeq(_)
SumSeq(q) == IF q = <<>> THEN 0 ELSE q[1] + SumSeq(Tail(q))

\* floor(S/C) byte counts of C, then S mod C when it is positive
ExpectedWrites(S, C) ==
  [i \in 1..((S \div C) + (IF S % C > 0 THEN 1 ELSE 0)) |->
     IF i <= S \div C THEN C ELSE S % C]

\* the transfer loops of the running put or get have been left without an error
TransferDone ==
  \/ cmd = "put" /\ pc \in {"put_close", "put_join", "put_verify"}
  \/ cmd = "get" /\ pc \in {"get_join", "get_verify"}

\* C1: once a put or a get has moved a file of S bytes in chunks of C >= 1
\* bytes, its write calls are floor(S/C) calls of exactly C bytes followed by
\* one call of S mod C bytes iff S mod C > 0: ceil(S/C) calls, summing to S.
C1_ChunkSplit ==
  TransferDone =>
    /\ chunk_size >= 1
    /\ writes = ExpectedWrites(fsize, chunk_size)
    /\ Len(writes) = (fsize + chunk_size - 1) \div chunk_size
    /\ SumSeq(writes) = fsize

\* a put has moved one full chunk and a final partial chunk
C1_Witness ==
  /\ cmd = "put" /\ pc = "put_verify"
  /\ total_chunked_size > 0 /\ read_left_size > 0
  /\ Len(writes) = 2

\* put_cmd ran up to its hash comparison and acted on it
Verified == cmd = "put" /\ pc \in {"returned", "raised"} /\ "clear" \in {term[i] : i \in 1..Len(term)}

\* put_cmd found stream.hash_value different from its own digest
Mismatch == StreamHashValue(stream) # md5(hashed)

\* the backend received other bytes than the source held
CorruptedInTransit == stream.kind = "gridin" /\ stream.buf # hashed

\* the put ran to its end with every read, write and close succeeding and
\* the bytes arriving as they were sent
CleanPut ==
  /\ cmd = "put" /\ pc \in {"returned", "raised"}
  /\ closes = 1 /\ closeOk /\ hashed = fdata
  /\ ~CorruptedInTransit

\* the get has downloaded a file that a put of this client stored
GotOwnFile ==
  /\ cmd = "get" /\ pc = "get_next" /\ rec # NoRec /\ fclosed
  /\ rec.content = SrcContent(Len(rec.content))
  /\ Len(fdata) = Len(rec.content)

\* C2: round trip on both backends and for every size including 0: a put whose
\* transfer went through ends with its verification passed and the object
\* stored, and a get of such an object ends with its verification passed and
\* the destination holding the source's bytes.
C2_RoundTrip ==
  /\ CleanPut =>
       /\ result = Returned("transferred")
       /\ \E r \in store : r.filename = filename /\ r.content = fdata
  /\ GotOwnFile =>
       /\ result.msg = "transferred"
       /\ fdata = rec.content

PutSucceeded == cmd = "put" /\ pc = "returned" /\ result = Returned("transferred")

\* C3: after a successful put of a filename, the bucket holds exactly one record
\* with that filename, the one this put wrote, whatever puts of that filename
\* came before.
C3_OneRecordPerName ==
  PutSucceeded =>
    /\ {r \in store : r.filename = filename} = {r \in store : r.fid = StreamId(stream)}
    /\ Cardinality({r \in store : r.filename = filename}) = 1

\* C4: when a put ends with its digest different from the backend's because a
\* chunk was corrupted in transit, the bucket holds no record with that filename
\* afterwards and the command does not end as a success: it raises.
C4_MismatchSurfaced ==
  (Verified /\ Mismatch /\ CorruptedInTransit) =>
    /\ \A r \in store : r.filename # filename
    /\ result.status = "raised"

\* C5: when the hash comparison of a put fails, the object this put wrote is
\* absent afterwards, on both backends and for both upload strategies, and
\* every object stored before the put is still present, unchanged.
C5_MismatchRemovesWritten ==
  (Verified /\ Mismatch) =>
    /\ \A r \in store : r.filename = filename => r \in pre
    /\ pre \subseteq store

\* C6: a successful put of filename N leaves every stored file whose filename
\* differs from N in place, names containing N or starting with N included.
C6_PruneOnlySameName ==
  PutSucceeded => \A r \in pre : r.filename # filename => r \in store

\* the requests of a multipart stream before its close: the session, then one
\* part per write call
PartPerWrite ==
  /\ Len(reqs) = 1 + Len(writes)
  /\ reqs[1].op = "INIT"
  /\ \A i \in 2..Len(reqs) : reqs[i].op = "PART"

\* C7 as the code has it: a size up to and including the threshold T is
\* buffered, nothing is sent before close and close issues exactly one PUT
\* carrying the written chunks concatenated in write order; a size above T
\* opens a multipart session and issues one part PUT per written chunk.
C7_StrategyByThreshold ==
  stream.kind = "minio" =>
    /\ stream.hasBuf <=> fsize <= MIN_PART_SIZE
    /\ (stream.hasBuf /\ closes = 0) => (reqs = <<>> /\ stream.buf = hashed)
    /\ (stream.hasBuf /\ closes = 1 /\ late = 0) => reqs = <<Req("PUT", 0, hashed)>>
    /\ (~stream.hasBuf /\ closes = 0) => PartPerWrite

\* C7 as stated: buffered below T, multipart at T and above
C7_AsStated ==
  stream.kind = "minio" => (stream.hasBuf <=> fsize < MIN_PART_SIZE)

\* a stream of exactly T bytes advertised took two writes and was closed
C7_Witness ==
  /\ stream.kind = "minio" /\ fsize = MIN_PART_SIZE
  /\ closes = 1 /\ late = 0 /\ Len(hashed) = 2
  /\ reqs = <<Req("PUT", 0, hashed)>>

\* the write stream opened a multipart session
OpenedSession == stream.kind = "minio" /\ reqs # <<>> /\ reqs[1].op = "INIT"

C9_SingleUse ==
  [][(cmd = "api" /\ pc = "api" /\ closes >= 1 /\ closeOk /\ apiOps' > apiOps)
       => (store' = store /\ reqs' = reqs)]_vars

\* C10: after the one close of a write stream returned, stream._id is the
\* identifier of the stored object of the stream's filename, delete of that
\* identifier removes exactly that object, and hash_value is the hash the
\* backend holds for it.
C10_IdAndHashAfterClose ==
  (stream.kind # "none" /\ closes = 1 /\ closeOk /\ late = 0
     /\ pc \in {"put_join", "put_verify", "api"}) =>
    \E r \in store :
      /\ r.filename = stream.filename
      /\ r.fid = StreamId(stream)
      /\ Delete(store, StreamId(stream)) = [store |-> store \ {r}, exc |-> "none"]
      /\ StreamHashValue(stream) = r.hash

\* the database held both collections of the bucket when bucket_list started
HasBoth(name) == name \o <<".", "chunks">> \in apre /\ name \o <<".", "files">> \in apre

\* the record bucket_list yielded is one of a bucket with both collections,
\* yielded after both were delivered, with the chunk collection's size and the
\* files collection's count
RightRecord(r) ==
  /\ HasBoth(r.name)
  /\ r.name \o <<".", "chunks">> \notin todo /\ r.name \o <<".", "files">> \notin todo
  /\ r.size = CollStats(r.name \o <<".", "chunks">>).size
  /\ r.files = CollStats(r.name \o <<".", "files">>).count

\* C11: for every set of collections and every enumeration order, bucket_list
\* runs to its end and yields exactly one record per bucket name that has both
\* a chunks and a files collection and none otherwise, each only after both
\* collections were seen and with the chunk collection's size and the files
\* collection's count; on an empty store it yields nothing.
C11_BucketList ==
  apc \in {"listing", "returned", "raised"} /\ aname = NoneId =>
    /\ ares.status # "raised"
    /\ \A i \in 1..Len(yielded) : RightRecord(yielded[i])
    /\ \A i, j \in 1..Len(yielded) : yielded[i].name = yielded[j].name => i = j
    /\ apc = "returned" =>
         {yielded[i].name : i \in 1..Len(yielded)} = {BucketOf(c) : c \in {d \in apre : HasBoth(BucketOf(d))}}

\* the bucket the drop was asked for existed before the command
ExistedBefore ==
  IF backend = "mongodb" THEN BucketExistsIn(aname, apre, {})
  ELSE BucketExistsIn(aname, {}, apre)

DropEnded == aname # NoneId /\ apc \in {"returned", "raised"}

\* C12: dropping a bucket that does not exist fails with the not-found error and
\* changes nothing on the server; dropping a bucket that exists returns, leaves
\* none of its underlying structures behind, and bucket_exists is false after it
\* (a drop the database driver failed is not the claim's case).
C12_DropBucket ==
  (DropEnded /\ ares.exc # "PyMongoError") =>
    IF ExistedBefore
    THEN /\ ares.status = "returned"
         /\ colls \cap DropList(aname) = {}
         /\ ~BucketExistsIn(aname, colls, buckets)
    ELSE /\ ares = Raised("ValueError")
         /\ (IF backend = "mongodb" THEN colls ELSE buckets) = apre

\* the same for the chunk store alone
C12_DropBucketMongo == backend = "mongodb" => C12_DropBucket

C12_WitnessMongo ==
  /\ DropEnded /\ backend = "mongodb" /\ ExistedBefore
  /\ DropList(aname) \subseteq apre
\* the records the filename of the command matched when the command began
MatchedBefore ==
  {r \in pre : IF backend = "mongodb" THEN MongoListMatch(filename, r.filename)
               ELSE MinioListMatch(filename, r.filename)}

NoSuchFile ==
  /\ cmd \in {"rm", "get"} /\ pc \in {"returned", "raised"}
  /\ filename # NoneId /\ MatchedBefore = {}

\* C13: an rm or a get given a filename that matches no stored file ends with the
\* not-found error, deletes nothing, and writes no local file.
C13_NotFoundAborts ==
  NoSuchFile =>
    /\ result = Raised("ValueError")
    /\ store = pre
    /\ fdata = <<>> /\ writes = <<>>

\* the same for get alone
C13_GetNotFoundAborts == cmd = "get" => C13_NotFoundAborts
\* the scheme of a connection string: what precedes the first "://", and the
\* whole string without one
SchemeOf(cs) == Partition(cs, "://")[1]

\* C14: StorageFactory.get on a connection string whose scheme is not a
\* registered backend name fails with the unsupported-backend error, builds no
\* backend object and attempts no network operation.
C14_UnknownScheme ==
  (call.fn = "get" /\ SchemeOf(call.arg) \notin {<<"mongodb">>, <<"minio">>, <<"s3">>}) =>
    /\ out.exc = "ValueError"
    /\ ~out.db.made
    /\ out.net = 0

C14_Witness ==
  /\ call.fn = "get" /\ SchemeOf(call.arg) = <<"ftp">>
  /\ Len(call.arg) > 3
  /\ out.exc = "ValueError"
\* the optional parts of the grammar: their text, and what they stand for
AuthCases ==
  {[text |-> <<>>, value |-> NoAuth],
   [text |-> <<"u", ":", "p", "@">>,
    value |-> [user |-> <<"u">>, password |-> <<"p">>, given |-> TRUE]]}
PortCases == {[text |-> <<>>, value |-> <<>>], [text |-> <<":", "27017">>, value |-> <<"27017">>]}
BucketCases == {[text |-> <<>>, value |-> <<>>], [text |-> <<"/", "b">>, value |-> <<"b">>]}
OptionCases ==
  {[text |-> <<>>, value |-> {}],
   [text |-> <<"?", "k", "=", "v">>, value |-> {<<<<"k">>, <<"v">>>>}],
   [text |-> <<"?", "k", "=", "v", "&", "j", "=", "w">>,
    value |-> {<<<<"k">>, <<"v">>>>, <<<<"j">>, <<"w">>>>}]}

\* get was called on the string made of these parts, and what it built is what
\* the parts stand for
ParsedAs(sch, a, pt, b, o) ==
  call = [fn |-> "get", arg |-> sch \o <<"://">> \o a.text \o <<"h">> \o pt.text \o b.text \o o.text]
    => out.db = [cls |-> sch, host |-> <<"h">>, port |-> pt.value, bucket |-> b.value,
                 auth |-> a.value, options |-> o.value, made |-> TRUE]

\* C15: for every connection string of the grammar
\* scheme://[user:pass@]host[:port][/bucket][?k=v&k=v...], each optional part
\* present or absent, StorageFactory.get builds a backend with the host, the
\* port, the credentials (none when absent), the bucket (empty when absent) and
\* the option map of the string, also when the /bucket part is omitted.
C15_ConnectionString ==
  \A sch \in STORAGES, a \in AuthCases, pt \in PortCases, b \in BucketCases, o \in OptionCases :
    ParsedAs(sch, a, pt, b, o)

\* the same for the strings that have a /bucket part or no options
C15_WithBucketOrNoOptions ==
  \A sch \in STORAGES, a \in AuthCases, pt \in PortCases, b \in BucketCases, o \in OptionCases :
    (b.text # <<>> \/ o.text = <<>>) => ParsedAs(sch, a, pt, b, o)
\* a write operation was called on a read stream, or a read operation on a
\* write stream
CrossCall ==
  /\ call.fn = "stream"
  /\ \/ call.arg[1] \in ReadStreams /\ IsWriteOp(call.arg[2])
     \/ call.arg[1] \in WriteStreams /\ IsReadOp(call.arg[2])

\* C16: every write operation called on a read stream and every read operation
\* called on a write stream fails with the unsupported-operation error, and
\* leaves the position, the open or closed state and the stored object as they
\* were.
C16_CrossOpsUnsupported ==
  CrossCall => out.exc = "NotImplementedError" /\ out.after = out.before

\* the same with any exception counted as the failure
C16_CrossOpsRaise == CrossCall => out.exc # "none" /\ out.after = out.before

\* the part that holds: no such call changes the stream or the object
C16_CrossOpsChangeNothing == CrossCall => out.after = out.before
\* the comparison of get_cmd is about to find the two hashes different
GetMismatch ==
  cmd = "get" /\ pc = "get_verify" /\ rstream.hash_value # HexDigest(hash_type, hashed)

LastLine(t) == IF t = <<>> THEN "none" ELSE t[Len(t)]

\* C17: when a get finds the hash it computed different from the stored one, it
\* reports the failure, leaves the local file as downloaded, deletes or
\* modifies nothing on the backend, and goes on with the files that remain;
\* and no get changes the backend at any point.
C17_GetMismatchGoesOn ==
  /\ [](cmd = "get" => store = pre /\ uploads = {})
  /\ [][GetMismatch =>
          /\ LastLine(term') = "failed"
          /\ fdata' = fdata /\ fdata = rec.content
          /\ store' = store
          /\ pc' = "get_next" /\ files' = files /\ result'.status = "running"]_vars

\* a get reported a failed file, went on, and fetched the file after it
C17_Witness ==
  /\ cmd = "get" /\ pc = "returned"
  /\ \E i, j \in 1..Len(term) : i < j /\ term[i] = "failed" /\ term[j] = "transferred"
  /\ fdata = rec.content
\* the number of whole factors 1024 in m
RECURSIVE Log1024(_)
Log1024(m) == IF m < 1024 THEN 0 ELSE 1 + Log1024(m \div 1024)

\* the index of the largest unit in which m * 1024^e is at least 1
LargestUnit(m, e) == IF e + Log1024(m) > 5 THEN 5 ELSE e + Log1024(m)

\* C18: scale never raises, and a size of at least 1 is given in the largest
\* unit of b, kb, mb, gb, tb, pb in which its value is at least 1: 999 is 999 b,
\* 1024 is 1 kb, 1048576 is 1 mb.
C18_ScaleByMagnitude ==
  call.fn = "scale" =>
    /\ out.exc = "none"
    /\ LET m == call.arg[1]
           e == call.arg[2]
       IN m >= 1 =>
            /\ out.unit = Units[LargestUnit(m, e) + 1]
            /\ out.value = <<m, e - LargestUnit(m, e)>>

\* the part that holds: no size makes scale raise
C18_ScaleNeverRaises == call.fn = "scale" => out.exc = "none"
\* a put whose source file exists has passed the call of new_file
PutPastOpen == cmd = "put" /\ pc \notin {"idle", "put_open"} /\ th # "none"

\* C19: a put of an existing source file computes the size, opens the write
\* stream with it, and the open succeeds on both backends: past the open the
\* put holds a stream, and the call was not refused.
C19_PutOpensWithSize ==
  PutPastOpen => stream.kind # "none" /\ result # Raised("TypeError")
\* the algorithm a backend verifies content with
BackendAlgorithm == IF backend = "mongodb" THEN "md5" ELSE "sha256"

\* get folds with the algorithm tag of the stream of the record it fetches
GetUsesStreamTag ==
  (cmd = "get" /\ rec # NoRec /\ pc \notin {"idle", "returned", "raised"}) =>
    hash_type = rstream.hash_type /\ hash_type = BackendAlgorithm

\* C20: the running hash of a put uses the algorithm of the backend in use, MD5
\* on the chunk store and SHA-256 on the object store, and the running hash of
\* a get uses the algorithm tag of the stream of the record.
C20_HashAlgorithm ==
  /\ (cmd = "put" /\ pc # "idle") => hash_type = BackendAlgorithm
  /\ GetUsesStreamTag

\* the part that holds: the get half
C20_GetHashAlgorithm == GetUsesStreamTag
\* a multipart write stream on which close was not called yet
MultipartOpen == stream.kind = "minio" /\ ~stream.hasBuf /\ closes = 0

\* the part requests issued so far, in the order issued
PartReqs == SelectSeq(reqs, LAMBDA r : r.op = "PART")

\* the parts recorded are numbered 1..n, each is the data of a part request of
\* its number, together they are the bytes written with success, in order;
\* the numbers of the requests never skip one and never go back
PartsAreSuccessfulWrites ==
  /\ {p.num : p \in stream.parts} = 1..Cardinality(stream.parts)
  /\ stream.part_number = Cardinality(stream.parts) + 1
  /\ ConcatParts(stream.parts) = hashed
  /\ \A p \in stream.parts :
       \E i \in 1..Len(PartReqs) : PartReqs[i].num = p.num /\ PartReqs[i].data = p.data
  /\ \A i \in 1..Len(PartReqs) :
       /\ PartReqs[i].num \in 1..stream.part_number
       /\ i > 1 => PartReqs[i].num \in {PartReqs[i - 1].num, PartReqs[i - 1].num + 1}
       /\ i = 1 => PartReqs[i].num = 1

\* C21: on a multipart stream the recorded parts are exactly the writes that
\* succeeded, numbered 1..n in write order without a gap or a repeat; a write
\* that fails records no part and uses up no number; and the close issues one
\* complete-multipart-upload call, which names every recorded part.
C21_PartsAndCompletion ==
  /\ [](MultipartOpen => PartsAreSuccessfulWrites)
  /\ [][(MultipartOpen /\ closes' = 1) =>
          /\ Len(SelectSeq(reqs', LAMBDA r : r.op = "COMPLETE")) = 1
          /\ \E i \in 1..Len(reqs') :
               reqs'[i] = Req("COMPLETE", 0, PartNumbers(stream.parts))]_vars

\* a part was sent twice because its first PUT failed, and the close that
\* followed completed the upload naming that one part
C21_Witness ==
  /\ stream.kind = "minio" /\ ~stream.hasBuf /\ closes = 1 /\ closeOk
  /\ Len(PartReqs) = 2 /\ PartReqs[1].num = 1 /\ PartReqs[2].num = 1
  /\ reqs[Len(reqs)] = Req("COMPLETE", 0, <<1>>)
\* an operation is called on a read stream of the object store
RsStep == call.fn = "rstream" /\ call'.fn = "rstream"

ThEnded == th \in {"done", "crashed"}
ThAlive == th \in {"init", "check", "tell"}

\* the main thread writes the line that clears the progress display
WritesClear ==
  /\ Len(term') > Len(term)
  /\ \E i \in (Len(term) + 1)..Len(term') : term'[i] = "clear"

\* C23: in a put or get that completes its transfer the main thread writes the
\* clearing line and the result message only after the progress thread has
\* ended, so that no progress line of that transfer follows them; and a
\* progress thread is started only when none is alive.
C23_JoinBeforeOutput ==
  /\ [](pc \in {"put_verify", "get_verify"} => ThEnded)
  /\ [][WritesClear => (ThEnded /\ th' = th)]_vars
  /\ [][(Len(term') > Len(term) /\ term'[Len(term')] = "progress") =>
          (ThAlive /\ pc \notin {"put_verify", "get_verify", "returned"})]_vars
  /\ [][(th' = "init" /\ th # "init") => ~ThAlive]_vars

\* a put showed progress, joined the thread and wrote its result
C23_Witness ==
  /\ cmd = "put" /\ pc = "returned" /\ th = "done"
  /\ Len(term) = 3 /\ term[1] = "progress" /\ term[2] = "clear"
\* C24: under fair scheduling the progress thread of every put and get ends:
\* once started it leaves its loop or dies, for transfers of length zero, for
\* transfers an I/O error aborts, and when the open of the write stream fails.
C24_ProgressThreadEnds == ThAlive ~> ThEnded

\* the thread of a put that was refused at the open has ended
C24_Witness ==
  /\ cmd = "put" /\ pc = "raised" /\ result.exc = "TypeError" /\ ThEnded
\* a put or a get was ended by an IOError raised while a chunk was streamed
PutIoError == cmd = "put" /\ pc = "raised" /\ stream.kind # "none" /\ result.exc = "IOError"
GetIoError == cmd = "get" /\ pc = "raised" /\ rec # NoRec /\ result.exc = "IOError"

\* C25: when an I/O error occurs while a chunk is streamed, in a put and in a
\* get alike, the local file and the remote stream are both closed before the
\* error reaches the caller.
C25_BothClosedOnIoError ==
  /\ PutIoError => (fclosed /\ closes >= 1)
  /\ GetIoError => (fclosed /\ rstream.closed)

\* the put half, and the local file of the get half
C25_PutClosesBoth ==
  /\ PutIoError => (fclosed /\ closes >= 1)
  /\ GetIoError => fclosed
\* drop_bucket was called on the chunk store for a bucket that existed
MongoDropEnded == DropEnded /\ backend = "mongodb" /\ ExistedBefore

\* the collection whose drop_collection call raised: the chunks collection is
\* dropped first, so it is still there exactly when its own drop failed
FailedTable == IF aname \o <<".", "chunks">> \in colls THEN "chunks" ELSE "files"

\* C26: drop_bucket either removes both collections of the bucket or, when
\* removing one of them fails, reports an error naming the collection that
\* failed; it never returns with only one of the two removed.
C26_DropAtomic ==
  MongoDropEnded =>
    \/ ares.status = "returned" /\ colls \cap DropList(aname) = {}
    \/ ares.status = "raised" /\ ares.msg = FailedTable

\* the half that holds: a drop that returns has removed both collections, and
\* a drop that removed only one ends with the driver's error
C26_NoHalfDropReturns ==
  MongoDropEnded =>
    \/ ares.status = "returned" /\ colls \cap DropList(aname) = {}
    \/ ares = [Raised("PyMongoError") EXCEPT !.msg = ares.msg]
\* both collections of the bucket are in the database
PairIn(name, cs) == name \o <<".", "chunks">> \in cs /\ name \o <<".", "files">> \in cs

ListingReturned == apc = "returned" /\ aname = NoneId /\ backend = "mongodb"

\* C27: on the chunk store, in every reachable state bucket_exists(name) is
\* true exactly when both the chunks and the files collection of the name
\* exist, hence exactly when bucket_list reports a record for the name.
C27_ExistsIsThePair ==
  /\ backend = "mongodb" =>
       \A n \in BucketNames : BucketExistsIn(n, colls, buckets) <=> PairIn(n, colls)
  /\ ListingReturned =>
       \A n \in BucketNames :
         BucketExistsIn(n, apre, {}) <=> \E i \in 1..Len(yielded) : yielded[i].name = n

\* the direction that holds: a bucket with both collections exists, and a
\* bucket that bucket_list reported exists
C27_PairExists ==
  /\ backend = "mongodb" =>
       \A n \in BucketNames : PairIn(n, colls) => BucketExistsIn(n, colls, buckets)
  /\ ListingReturned =>
       \A i \in 1..Len(yielded) : BucketExistsIn(yielded[i].name, apre, {})
\* the records list(bucket) yields, and those it yielded when the command began
Listed == List(NoneId)
ListedBefore ==
  {r \in pre : IF backend = "mongodb" THEN MongoListMatch(NoneId, r.filename)
               ELSE MinioListMatch(NoneId, r.filename)}

\* C28: a put aborted by an I/O error while streaming leaves the listed file
\* records of the bucket as they were before the put: no object holding only a
\* part of the source is stored, and no second record of the filename appears.
C28_AbortedPutStoresNothing ==
  PutIoError =>
    /\ Listed = ListedBefore
    /\ \A r \in Listed : r.filename = filename => r \in ListedBefore
    /\ Cardinality({r \in Listed : r.filename = filename})
         = Cardinality({r \in ListedBefore : r.filename = filename})

\* what the handler does instead, on the chunk store: the stream was closed,
\* and the bytes written so far are a stored file under a new id
C28_AbortedPutClosesStream ==
  (PutIoError /\ closeOk /\ backend = "mongodb") =>
    \E r \in Listed : /\ r.filename = filename /\ r \notin ListedBefore
                       /\ Len(r.content) = Len(hashed) /\ Len(hashed) < fsize
\* C29: in every interleaving of the transfer and the progress thread, the
\* thread calls tell on the watched file only while the file is open, also when
\* the main thread closes the file on an I/O error or on leaving the with block
\* after a failed stream open (crashed: a tell was made on the closed file).
C29_TellOnlyWhileOpen == th # "crashed"

\* the same inside the loop alone: a tell the loop test let through
C29_LoopTellWhileOpen == [][(th = "tell" /\ th' # th) => ~fclosed]_vars

\* what holds: the loop test itself never lets a closed file through
C29_LoopTestSeesClosed == [][(th = "check" /\ th' = "tell") => ~fclosed]_vars
\* bucket_list is running or has ended
Listing == apc \in {"listing", "returned", "raised"} /\ aname = NoneId

\* a collection of the database that bucket_list files under the name and
\* that is neither the chunks nor the files collection of the name
ThirdOf(name) == {c \in apre : BucketOf(c) = name /\ RecordType(c) = "none"}

\* C30: bucket_list completes without raising for every set and every
\* enumeration order of collections, also when a further collection shares a
\* bucket's name prefix (delivered before or after the pair) and when a
\* collection name has no dot.
C30_BucketListNeverRaises == Listing => ares.status # "raised"

\* what holds: bucket_list raises only on a further collection of a name whose
\* record it has yielded already; one delivered before the pair is complete
\* does no harm
C30_RaisesOnlyAfterPair ==
  (Listing /\ ares.status = "raised") =>
    /\ ares.exc = "TypeError"
    /\ \E i \in 1..Len(yielded) : ThirdOf(yielded[i].name) # {}
====
